---- MODULE Spec2Model ----
(***************************************************************************)
(* Model of factorio_noir.                                                 *)
(*   Spec           gen_pack_files driving the pool of sprite_processor    *)
(*   SpecLocate     find_mod / open_mod_read                               *)
(*   SpecMatch      the path filter of Mod.files                           *)
(*   SpecCategory   SpriteCategory.sprite_files, one candidate at a time   *)
(*   SpecTreatment  SpriteTreatment.from_yaml and tiles()                  *)
(*   SpecRender     apply_transforms                                       *)
(*   SpecDispatch   the for statement of gen_pack_files over sprite_files  *)
(*   SpecPatterns   gen_pack_files over the patterns of each category      *)
(* Saturation, brightness, blend strengths and colour weights are kept in  *)
(* hundredths.                                                             *)
(***************************************************************************)
EXTENDS Integers, Sequences, FiniteSets, TLC

VARIABLES
    \* ---- gen_pack_files / sprite_processor ----
    dry_run,         \* gen_pack_files argument dry_run
    is_vanilla,      \* gen_pack_files argument is_vanilla
    pc,             \* position of the driver (main process)
    ci,             \* index of the category the submission loop is in
    si,             \* selections the current category's generator has yielded
    marked_for_processing,  \* canonical address -> source that claimed it
    futures,        \* sprite_processor's futures list, in submission order
    wi,             \* index of the future the result() loop is waiting on
    xi,             \* index of the future the cancel loop is at
    err,            \* exception propagating out of sprite_processor
    files,          \* output files written by render tasks
    configWritten,  \* config.lua has been written
    firstFailed,    \* history: index of the task that failed first in time
    pendingAtFail,  \* history: tasks that were Pending at that moment
    \* ---- find_mod / open_mod_read ----
    fs,             \* the entries of each search root (source_dirs)
    global_mod_cache,  \* mod name -> Mod
    lastCall,       \* the last open_mod_read call and what it returned
    resolutions,    \* history: find_mod runs per mod name
    constructions,  \* history: Mod(...) constructions per mod name
    firstBuilt,     \* history: the Mod the first successful call built
    listed,         \* result of the last Mod.files() call
    lpc,            \* "ready", or "aborted" once a call has raised
    nCalls,         \* open_mod_read calls made so far
    \* ---- Mod.files / filter_check ----
    mpc,            \* "ready", or "checked" once filter_check has returned
    indexed_file,   \* f: one path of Mod.all_files, "/"-separated
    filter,         \* filter.parts of the Path handed to Mod.files
    matched,        \* what filter_check returned for them
    \* ---- SpriteCategory.sprite_files / process_sprite sizes ----
    kpc,            \* "ready", "resolved" (one candidate handled), "rendered"
    category,       \* the SpriteCategory: excludes, includes, replaces
    candidate,      \* the (mod, sprite_path) the inner loop is at
    selection,      \* what the loop body did with the candidate
    out_size,       \* pixel size of the image process_sprite saves
    \* ---- SpriteTreatment.from_yaml / tiles ----
    tpc,            \* "ready", "built", "aborted", "tiled"
    yaml_fragment,  \* the treatment mapping of the rule file
    treatment,      \* the SpriteTreatment built from it
    image_size,     \* (width, height) handed to tiles()
    tile_set,       \* what tiles(width, height) yields, in order
    \* ---- apply_transforms ----
    rpc,            \* "ready", or "done" once apply_transforms has returned
    call,           \* its arguments: image, treatment, bright, new_size
    result,         \* the image it returned
    \* ---- SpriteCategory.patterns, walked by sprite_files ----
    rules,          \* per category: its mod and the node under it in the rule file
    pi,             \* index in self.patterns of the pattern the outer loop is at
    seen,           \* paths mod.files(pattern) has produced for that pattern
    claimant,       \* history: address -> <<category, pattern>> that claimed it
    collided        \* history: the selection that found its address claimed

pipeVars == <<dry_run, is_vanilla, pc, ci, si, marked_for_processing, futures, wi, xi, err,
              files, configWritten, firstFailed, pendingAtFail>>

locVars == <<fs, global_mod_cache, lastCall, resolutions, constructions, firstBuilt,
             listed, lpc, nCalls>>

matchVars == <<mpc, indexed_file, filter, matched>>

catVars == <<kpc, category, candidate, selection, out_size>>

treatVars == <<tpc, yaml_fragment, treatment, image_size, tile_set>>

renderVars == <<rpc, call, result>>

patVars == <<rules, pi, seen, claimant, collided>>

pureVars == <<matchVars, catVars, treatVars, renderVars, patVars>>

vars == <<pipeVars, locVars, pureVars>>

----------------------------------------------------------------------------
(* Bounds of the model *)

NumCategories == 2      \* rule files of the pack
MaxSelections == 2      \* selections one category's sprite_files() yields
PoolSize == 2           \* worker processes of the ProcessPoolExecutor

----------------------------------------------------------------------------
(* Canonical addresses and target paths *)

\* full_sprite_path = f"__{mod.name}__/{sprite_path}", kept as its two parts
LuaPaths == {<<"base", "a.png">>, <<"base", "b.png">>, <<"core", "a.png">>}

BuiltinLuaPath == <<"core", "graphics/background-image.jpg">>
BuiltinSource == 0

\* target_dir / "data" / lua_path
TargetPath(lua_path) == <<"data">> \o lua_path

NoError == [kind |-> "none", task |-> 0]
AbortError == [kind |-> "abort", task |-> 0]
TaskError(i) == [kind |-> "task", task |-> i]

Done(state) == state \in {"Completed", "Failed", "Cancelled"}

RunningCount == Cardinality({i \in DOMAIN futures : futures[i].state = "Running"})

SetState(i, s) == [futures EXCEPT ![i].state = s]

----------------------------------------------------------------------------
(* gen_pack_files: the submission loop inside `with sprite_processor` *)

InitMarked(vanilla) ==
    IF vanilla THEN (BuiltinLuaPath :> BuiltinSource) ELSE << >>

InitPipe ==
    /\ dry_run \in BOOLEAN
    /\ is_vanilla \in BOOLEAN
    /\ pc = "submit"
    /\ ci = 1
    /\ si = 0
    /\ marked_for_processing = InitMarked(is_vanilla)
    /\ futures = << >>
    /\ wi = 1
    /\ xi = 1
    /\ err = NoError
    /\ files = {}
    /\ configWritten = FALSE
    /\ firstFailed = 0
    /\ pendingAtFail = {}

\* processor.submit(func, ...); futures.append(future)
Submit(lua_path, source) ==
    Append(futures, [target |-> TargetPath(lua_path), state |-> "Pending",
                     source |-> source])

\* Mutant of MakeTask: the `lua_path in marked_for_processing` check is
\* missing, so an address already claimed is marked and submitted again.
MakeTaskUnchecked ==
    /\ pc = "submit"
    /\ ci <= NumCategories
    /\ si < MaxSelections
    /\ \E lua_path \in LuaPaths :
        /\ marked_for_processing' = (lua_path :> ci) @@ marked_for_processing
        /\ futures' = IF dry_run THEN futures ELSE Submit(lua_path, ci)
    /\ si' = si + 1
    /\ UNCHANGED <<dry_run, is_vanilla, pc, ci, wi, xi, err, files,
                   configWritten, firstFailed, pendingAtFail, locVars, pureVars>>

\* One iteration of the loop body for a selection that is not yet marked.
MakeTask ==
    /\ pc = "submit"
    /\ ci <= NumCategories
    /\ si < MaxSelections
    /\ \E lua_path \in LuaPaths :
        /\ lua_path \notin DOMAIN marked_for_processing
        /\ marked_for_processing' = marked_for_processing @@ (lua_path :> ci)
        /\ futures' = IF dry_run THEN futures ELSE Submit(lua_path, ci)
    /\ si' = si + 1
    /\ UNCHANGED <<dry_run, is_vanilla, pc, ci, wi, xi, err, files,
                   configWritten, firstFailed, pendingAtFail, locVars, pureVars>>

\* One iteration of the loop body for a selection that is already marked:
\* raise click.Abort(), caught by sprite_processor's `except Exception`.
CollisionAbort ==
    /\ pc = "submit"
    /\ ci <= NumCategories
    /\ si < MaxSelections
    /\ \E lua_path \in LuaPaths : lua_path \in DOMAIN marked_for_processing
    /\ err' = AbortError
    /\ pc' = "except"
    /\ xi' = 1
    /\ UNCHANGED <<dry_run, is_vanilla, ci, si, marked_for_processing, futures, wi, files,
                   configWritten, firstFailed, pendingAtFail, locVars, pureVars>>

\* category.sprite_files() is exhausted: next category, or leave the
\* with-body and enter the result() loop.
NextCategory ==
    /\ pc = "submit"
    /\ ci <= NumCategories
    /\ ci' = ci + 1
    /\ si' = 0
    /\ pc' = IF ci = NumCategories THEN "wait" ELSE "submit"
    /\ wi' = 1
    /\ UNCHANGED <<dry_run, is_vanilla, marked_for_processing, futures, xi, err, files,
                   configWritten, firstFailed, pendingAtFail, locVars, pureVars>>

----------------------------------------------------------------------------
(* sprite_processor: the driver after the with-body *)

\* Mutant of WaitResult: the exception of a Failed future is swallowed and
\* the loop goes on to the next future.
WaitResultSwallowsFailure ==
    /\ pc = "wait"
    /\ wi <= Len(futures)
    /\ futures[wi].state \in {"Completed", "Failed"}
    /\ wi' = wi + 1
    /\ UNCHANGED <<dry_run, is_vanilla, pc, ci, si, marked_for_processing, futures, xi, err,
                   files, configWritten, firstFailed, pendingAtFail, locVars, pureVars>>

\* for future in progress: future.result()
WaitResult ==
    /\ pc = "wait"
    /\ wi <= Len(futures)
    /\ \/ /\ futures[wi].state = "Completed"
          /\ wi' = wi + 1
          /\ UNCHANGED <<pc, xi, err>>
       \/ /\ futures[wi].state = "Failed"
          /\ err' = TaskError(wi)
          /\ pc' = "except"
          /\ xi' = 1
          /\ UNCHANGED wi
    /\ UNCHANGED <<dry_run, is_vanilla, ci, si, marked_for_processing, futures, files,
                   configWritten, firstFailed, pendingAtFail, locVars, pureVars>>

\* the result() loop ran to its end: no exception, go to `finally`
WaitDone ==
    /\ pc = "wait"
    /\ wi > Len(futures)
    /\ pc' = "shutdown"
    /\ UNCHANGED <<dry_run, is_vanilla, ci, si, marked_for_processing, futures, wi, xi, err,
                   files, configWritten, firstFailed, pendingAtFail, locVars, pureVars>>

\* Mutant of CancelStep: the loop goes over the futures without cancelling.
CancelStepLeavesPending ==
    /\ pc = "except"
    /\ xi <= Len(futures)
    /\ xi' = xi + 1
    /\ UNCHANGED <<dry_run, is_vanilla, pc, ci, si, marked_for_processing, futures, wi, err,
                   files, configWritten, firstFailed, pendingAtFail, locVars, pureVars>>

\* except Exception: for future in futures: if not future.done(): future.cancel()
\* cancel() succeeds on a Pending future and is refused by a Running one.
CancelStep ==
    /\ pc = "except"
    /\ xi <= Len(futures)
    /\ futures' = IF futures[xi].state = "Pending"
                  THEN SetState(xi, "Cancelled")
                  ELSE futures
    /\ xi' = xi + 1
    /\ UNCHANGED <<dry_run, is_vanilla, pc, ci, si, marked_for_processing, wi, err, files,
                   configWritten, firstFailed, pendingAtFail, locVars, pureVars>>

\* raise e, entering `finally`
CancelDone ==
    /\ pc = "except"
    /\ xi > Len(futures)
    /\ pc' = "shutdown"
    /\ UNCHANGED <<dry_run, is_vanilla, ci, si, marked_for_processing, futures, wi, xi, err,
                   files, configWritten, firstFailed, pendingAtFail, locVars, pureVars>>

\* Mutant of Shutdown: processor.shutdown(wait=False), which does not block.
ShutdownNoWait ==
    /\ pc = "shutdown"
    /\ pc' = IF err = NoError THEN "returned" ELSE "raised"
    /\ UNCHANGED <<dry_run, is_vanilla, ci, si, marked_for_processing, futures, wi, xi, err,
                   files, configWritten, firstFailed, pendingAtFail, locVars, pureVars>>

\* finally: processor.shutdown()  (wait=True: blocks until no work is left)
Shutdown ==
    /\ pc = "shutdown"
    /\ \A i \in DOMAIN futures : Done(futures[i].state)
    /\ pc' = IF err = NoError THEN "returned" ELSE "raised"
    /\ UNCHANGED <<dry_run, is_vanilla, ci, si, marked_for_processing, futures, wi, xi, err,
                   files, configWritten, firstFailed, pendingAtFail, locVars, pureVars>>

\* Mutant of WriteConfig: config.lua is written also after the with-statement
\* has raised.
WriteConfigAfterRaise ==
    /\ pc \in {"returned", "raised"}
    /\ configWritten = FALSE
    /\ pc' = "finished"
    /\ configWritten' = ~dry_run
    /\ UNCHANGED <<dry_run, is_vanilla, ci, si, marked_for_processing, futures, wi, xi, err,
                   files, firstFailed, pendingAtFail, locVars, pureVars>>

\* gen_pack_files after the with-statement: write config.lua unless dry_run
WriteConfig ==
    /\ pc = "returned"
    /\ pc' = "finished"
    /\ configWritten' = ~dry_run
    /\ UNCHANGED <<dry_run, is_vanilla, ci, si, marked_for_processing, futures, wi, xi, err,
                   files, firstFailed, pendingAtFail, locVars, pureVars>>

----------------------------------------------------------------------------
(* ProcessPoolExecutor: the worker processes *)

\* A worker takes the oldest Pending work item.
StartTask ==
    /\ RunningCount < PoolSize
    /\ \E i \in DOMAIN futures :
        /\ futures[i].state = "Pending"
        /\ \A j \in 1..(i - 1) : futures[j].state # "Pending"
        /\ futures' = SetState(i, "Running")
    /\ UNCHANGED <<dry_run, is_vanilla, pc, ci, si, marked_for_processing, wi, xi, err, files,
                   configWritten, firstFailed, pendingAtFail, locVars, pureVars>>

\* process_sprite returns: the output file is saved
FinishTask ==
    /\ \E i \in DOMAIN futures :
        /\ futures[i].state = "Running"
        /\ futures' = SetState(i, "Completed")
        /\ files' = files \cup {futures[i].target}
    /\ UNCHANGED <<dry_run, is_vanilla, pc, ci, si, marked_for_processing, wi, xi, err,
                   configWritten, firstFailed, pendingAtFail, locVars, pureVars>>

\* process_sprite raises
FailTask ==
    /\ \E i \in DOMAIN futures :
        /\ futures[i].state = "Running"
        /\ futures' = SetState(i, "Failed")
        /\ firstFailed' = IF firstFailed = 0 THEN i ELSE firstFailed
        /\ pendingAtFail' =
             IF firstFailed = 0
             THEN {j \in DOMAIN futures : futures[j].state = "Pending"}
             ELSE pendingAtFail
    /\ UNCHANGED <<dry_run, is_vanilla, pc, ci, si, marked_for_processing, wi, xi, err, files,
                   configWritten, locVars, pureVars>>

----------------------------------------------------------------------------
(* File names as character sequences, and the string operations of mod.py *)

MaxEntries == 2         \* entries one search root holds
MaxCalls == 2           \* open_mod_read calls of one run

\* source_dirs, as cli builds it: the data directory, then the mods directory
SourceDirs == <<"factorio_data", "factorio_mods">>

ZipSuffix == <<".", "z", "i", "p">>

\* "a", "a.zip", "a_1.2.0.zip", "a_1.10.0", "a_1.x", "a_x"
EntryNames ==
    { <<"a">>,
      <<"a">> \o ZipSuffix,
      <<"a", "_", "1", ".", "2", ".", "0">> \o ZipSuffix,
      <<"a", "_", "1", ".", "1", "0", ".", "0">>,
      <<"a", "_", "1", ".", "x">>,
      <<"a", "_", "x">> }

\* the mod names open_mod_read is asked for: "a", "a_x"
RequestedNames == { <<"a">>, <<"a", "_", "x">> }

DigitChars == <<"0", "1", "2", "3", "4", "5", "6", "7", "8", "9">>

\* c in s
Contains(s, c) == \E i \in DOMAIN s : s[i] = c

\* s.find(c), 1-based, 0 when absent
FirstIndex(s, c) ==
    IF Contains(s, c)
    THEN CHOOSE i \in DOMAIN s : s[i] = c /\ \A j \in 1..(i - 1) : s[j] # c
    ELSE 0

\* s.split(c, 1) of a string that contains c
SplitOnce(s, c) ==
    <<SubSeq(s, 1, FirstIndex(s, c) - 1), SubSeq(s, FirstIndex(s, c) + 1, Len(s))>>

\* s.split(c)
RECURSIVE SplitAll(_, _)
SplitAll(s, c) ==
    IF Contains(s, c)
    THEN <<SplitOnce(s, c)[1]>> \o SplitAll(SplitOnce(s, c)[2], c)
    ELSE <<s>>

IsDigit(c) == \E d \in DOMAIN DigitChars : DigitChars[d] = c

DigitValue(c) == (CHOOSE d \in DOMAIN DigitChars : DigitChars[d] = c) - 1

\* int(d) succeeds on a non-empty string of decimal digits
IntParses(d) == Len(d) > 0 /\ \A i \in DOMAIN d : IsDigit(d[i])

RECURSIVE IntOf(_)
IntOf(d) ==
    IF Len(d) = 0 THEN 0
    ELSE 10 * IntOf(SubSeq(d, 1, Len(d) - 1)) + DigitValue(d[Len(d)])

\* split_version: [int(d) for d in version.split(".")], None when an int() raises
split_version(version) ==
    LET parts == SplitAll(version, ".")
    IN  IF \A i \in DOMAIN parts : IntParses(parts[i])
        THEN [ok |-> TRUE, value |-> [i \in DOMAIN parts |-> IntOf(parts[i])]]
        ELSE [ok |-> FALSE, value |-> << >>]

\* Python's list comparison a > b
RECURSIVE ListGreater(_, _)
ListGreater(a, b) ==
    IF Len(a) = 0 THEN FALSE
    ELSE IF Len(b) = 0 THEN TRUE
    ELSE IF a[1] # b[1] THEN a[1] > b[1]
    ELSE ListGreater(Tail(a), Tail(b))

----------------------------------------------------------------------------
(* find_mod *)

NotFound == [found |-> FALSE, root |-> 0, entry |-> << >>]
FoundAt(root, entry) == [found |-> TRUE, root |-> root, entry |-> entry]

NoVersion == [ok |-> FALSE, value |-> << >>]

\* f_name, f_version = file_name.split("_", 1)
\* if "." in f_version: f_version, _ = f_version.split(".", 1)
VersionText(file_name) ==
    LET f_version == SplitOnce(file_name, "_")[2]
    IN  IF Contains(f_version, ".") THEN SplitOnce(f_version, ".")[1]
        ELSE f_version

\* The body of `for f in mod_root.iterdir()` from entry i of the listing on;
\* found_path / found_version are found_mod_path / found_mod_version.
RECURSIVE ScanRoot(_, _, _, _, _, _)
ScanRoot(mod_name, root, listing, i, found_path, found_version) ==
    IF i > Len(listing) THEN NotFound
    ELSE
      LET file_name == listing[i]
          skip == ScanRoot(mod_name, root, listing, i + 1, found_path, found_version)
      IN
      IF file_name = mod_name THEN FoundAt(root, file_name)
      ELSE IF file_name = mod_name \o ZipSuffix THEN FoundAt(root, file_name)
      ELSE IF Contains(mod_name, "_") THEN skip
      ELSE IF ~Contains(file_name, "_") THEN skip
      ELSE IF SplitOnce(file_name, "_")[1] # mod_name THEN skip
      ELSE
        LET f_version_split == split_version(VersionText(file_name))
        IN
        IF ~f_version_split.ok THEN skip
        ELSE
          LET better == \/ ~found_version.ok
                        \/ ListGreater(f_version_split.value, found_version.value)
              new_path == IF better THEN FoundAt(root, file_name) ELSE found_path
              new_version == IF better THEN f_version_split ELSE found_version
          IN
          \* `if found_mod_path != None: return found_mod_path`, inside the loop
          IF new_path.found THEN new_path
          ELSE ScanRoot(mod_name, root, listing, i + 1, new_path, new_version)

\* for mod_root in source_dirs: ...; raise Exception when no root returned
RECURSIVE ScanRoots(_, _, _)
ScanRoots(mod_name, listings, root) ==
    IF root > Len(listings) THEN NotFound
    ELSE
      LET r == ScanRoot(mod_name, root, listings[root], 1, NotFound, NoVersion)
      IN  IF r.found THEN r ELSE ScanRoots(mod_name, listings, root + 1)

find_mod(mod_name, listings) == ScanRoots(mod_name, listings, 1)

\* The orders in which iterdir() may enumerate a directory
Enumerations(S) ==
    {s \in [1..Cardinality(S) -> S] : \A i, j \in DOMAIN s : i # j => s[i] # s[j]}

\* One enumeration per search root
Listings ==
    {<<l1, l2>> : l1 \in Enumerations(fs[1]), l2 \in Enumerations(fs[2])}

\* What find_mod(mod_name, source_dirs) may return, over the enumerations
Resolutions(mod_name) == {find_mod(mod_name, l) : l \in Listings}

----------------------------------------------------------------------------
(* Mod.__init__ *)

EndsWith(s, suffix) ==
    /\ Len(s) >= Len(suffix)
    /\ SubSeq(s, Len(s) - Len(suffix) + 1, Len(s)) = suffix

\* s.startswith(prefix)
StartsWith(s, prefix) ==
    /\ Len(s) >= Len(prefix)
    /\ SubSeq(s, 1, Len(prefix)) = prefix

\* a search-root entry that is not a directory is opened as a zip archive
IsArchive(entry) == EndsWith(entry, ZipSuffix)

\* Path.stem of "<x>.zip"
Stem(entry) == SubSeq(entry, 1, Len(entry) - Len(ZipSuffix))

\* the relative .png paths a mod may hold
IndexChoices == { {"icon.png"}, {"icon.png", "entity/belt.png"} }

NoMod == [mod_path |-> NotFound, mod_type |-> "none", name |-> << >>,
          file_prefix |-> << >>, all_files |-> {}]

\* Mod(mod_name, mod_path) with the given index of .png files
Mod(mod_path, index) ==
    LET full_mod_name == IF IsArchive(mod_path.entry) THEN Stem(mod_path.entry)
                         ELSE mod_path.entry
    IN  [mod_path |-> mod_path,
         mod_type |-> IF IsArchive(mod_path.entry) THEN "zip" ELSE "file",
         name |-> SplitAll(full_mod_name, "_")[1],
         file_prefix |-> IF IsArchive(mod_path.entry)
                         THEN full_mod_name \o <<"/">> ELSE << >>,
         all_files |-> index]

----------------------------------------------------------------------------
(* open_mod_read *)

NoCall == [name |-> << >>, kind |-> "none", ok |-> FALSE, mod |-> NoMod]

InitLocate ==
    /\ fs \in [DOMAIN SourceDirs ->
                 {S \in SUBSET EntryNames : Cardinality(S) <= MaxEntries}]
    /\ global_mod_cache = << >>
    /\ lastCall = NoCall
    /\ resolutions = [n \in RequestedNames |-> 0]
    /\ constructions = [n \in RequestedNames |-> 0]
    /\ firstBuilt = << >>
    /\ listed = [name |-> << >>, files |-> {}]
    /\ lpc = "ready"
    /\ nCalls = 0

\* Mutant of InCache: the cache is never consulted.
InCacheNever(mod_name) == FALSE

\* mod_name in global_mod_cache
InCache(mod_name) == mod_name \in DOMAIN global_mod_cache

\* open_mod_read when the name is cached: return global_mod_cache[mod_name]
CacheHit ==
    /\ lpc = "ready"
    /\ nCalls < MaxCalls
    /\ \E mod_name \in RequestedNames :
        /\ InCache(mod_name)
        /\ lastCall' = [name |-> mod_name, kind |-> "hit", ok |-> TRUE,
                        mod |-> global_mod_cache[mod_name]]
    /\ nCalls' = nCalls + 1
    /\ UNCHANGED <<fs, global_mod_cache, resolutions, constructions, firstBuilt, listed,
                   lpc, pipeVars, pureVars>>

\* open_mod_read when the name is not cached and find_mod raises
LocateFail ==
    /\ lpc = "ready"
    /\ nCalls < MaxCalls
    /\ \E mod_name \in RequestedNames :
        /\ ~InCache(mod_name)
        /\ \E mod_path \in Resolutions(mod_name) : ~mod_path.found
        /\ resolutions' = [resolutions EXCEPT ![mod_name] = @ + 1]
        /\ lastCall' = [name |-> mod_name, kind |-> "resolved", ok |-> FALSE,
                        mod |-> NoMod]
    /\ lpc' = "aborted"
    /\ nCalls' = nCalls + 1
    /\ UNCHANGED <<fs, global_mod_cache, constructions, firstBuilt, listed, pipeVars, pureVars>>

\* open_mod_read when the name is not cached, find_mod returns a path and
\* Mod(...) builds the index: the Mod is stored in the cache and returned
LocateBuild ==
    /\ lpc = "ready"
    /\ nCalls < MaxCalls
    /\ \E mod_name \in RequestedNames :
        /\ ~InCache(mod_name)
        /\ \E mod_path \in Resolutions(mod_name), index \in IndexChoices :
           /\ mod_path.found
           /\ LET mod == Mod(mod_path, index)
              IN
               /\ global_mod_cache' = (mod_name :> mod) @@ global_mod_cache
               /\ lastCall' = [name |-> mod_name, kind |-> "resolved",
                               ok |-> TRUE, mod |-> mod]
               /\ firstBuilt' = IF mod_name \in DOMAIN firstBuilt THEN firstBuilt
                                ELSE (mod_name :> mod) @@ firstBuilt
        /\ resolutions' = [resolutions EXCEPT ![mod_name] = @ + 1]
        /\ constructions' = [constructions EXCEPT ![mod_name] = @ + 1]
    /\ nCalls' = nCalls + 1
    /\ UNCHANGED <<fs, listed, lpc, pipeVars, pureVars>>

\* open_mod_read when find_mod returns an archive one of whose .png entries
\* does not start with the archive's folder: Mod(...) raises, nothing is cached
BuildFail ==
    /\ lpc = "ready"
    /\ nCalls < MaxCalls
    /\ \E mod_name \in RequestedNames :
        /\ ~InCache(mod_name)
        /\ \E mod_path \in Resolutions(mod_name) :
           /\ mod_path.found
           /\ IsArchive(mod_path.entry)
           /\ lastCall' = [name |-> mod_name, kind |-> "resolved", ok |-> FALSE,
                           mod |-> Mod(mod_path, {})]
        /\ resolutions' = [resolutions EXCEPT ![mod_name] = @ + 1]
        /\ constructions' = [constructions EXCEPT ![mod_name] = @ + 1]
    /\ lpc' = "aborted"
    /\ nCalls' = nCalls + 1
    /\ UNCHANGED <<fs, global_mod_cache, firstBuilt, listed, pipeVars, pureVars>>

\* Mod.files(Path("**/*.png")) / Mod.lazy_file on a cached Mod: reads all_files
ListFiles ==
    /\ lpc = "ready"
    /\ \E mod_name \in DOMAIN global_mod_cache :
        listed' = [name |-> mod_name, files |-> global_mod_cache[mod_name].all_files]
    /\ UNCHANGED <<fs, global_mod_cache, lastCall, resolutions, constructions, firstBuilt,
                   lpc, nCalls, pipeVars, pureVars>>

----------------------------------------------------------------------------
(* Mod.files: the path filter *)

MaxSegments == 3        \* segments of an indexed path, and of a filter

DoubleStar == <<"*", "*">>
PngSuffix == <<".", "p", "n", "g">>
StarPng == <<"*">> \o PngSuffix

\* segments of the paths of Mod.all_files: "a", "b", "d.png", "d.txt"
PathSegments ==
    { <<"a">>, <<"b">>, <<"d">> \o PngSuffix, <<"d", ".", "t", "x", "t">> }

\* segments of a filter: "a", "**", "*.png", "*b*"
FilterSegments == { <<"a">>, DoubleStar, StarPng, <<"*", "b", "*">> }

\* "/".join(segments)
RECURSIVE JoinPath(_)
JoinPath(segments) ==
    IF Len(segments) = 1 THEN segments[1]
    ELSE segments[1] \o <<"/">> \o JoinPath(Tail(segments))

IndexedFiles ==
    { JoinPath(p) : p \in UNION { [1..n -> PathSegments] : n \in 1..MaxSegments } }

Filters == UNION { [1..n -> FilterSegments] : n \in 0..MaxSegments }

\* fnmatch(name, pat) on a case-sensitive platform, for the wildcards * and ?
RECURSIVE fnmatch(_, _)
fnmatch(name, pat) ==
    IF Len(pat) = 0 THEN Len(name) = 0
    ELSE IF Head(pat) = "*"
    THEN \/ fnmatch(name, Tail(pat))
         \/ Len(name) > 0 /\ fnmatch(Tail(name), pat)
    ELSE IF Head(pat) = "?"
    THEN Len(name) > 0 /\ fnmatch(Tail(name), Tail(pat))
    ELSE Len(name) > 0 /\ Head(name) = Head(pat) /\ fnmatch(Tail(name), Tail(pat))

\* filter_check with a "**" that has to absorb at least one path member
RECURSIVE filter_check_AbsorbsOne(_, _)
filter_check_AbsorbsOne(current_path, current_filter) ==
    IF Len(current_filter) = 0 /\ Len(current_path) = 0 THEN TRUE
    ELSE IF Len(current_filter) = 0 \/ Len(current_path) = 0 THEN FALSE
    ELSE IF Head(current_filter) = DoubleStar
    THEN \E i \in 1..(Len(current_path) - 1) :
            filter_check_AbsorbsOne(SubSeq(current_path, i + 1, Len(current_path)),
                                    Tail(current_filter))
    ELSE IF fnmatch(Head(current_path), Head(current_filter))
    THEN filter_check_AbsorbsOne(Tail(current_path), Tail(current_filter))
    ELSE FALSE

\* filter_check(current_path, current_filter); range(len(current_path)) is
\* 0 .. len - 1, and current_path[i:] drops the first i members
RECURSIVE filter_check(_, _)
filter_check(current_path, current_filter) ==
    IF Len(current_filter) = 0 /\ Len(current_path) = 0 THEN TRUE
    ELSE IF Len(current_filter) = 0 \/ Len(current_path) = 0 THEN FALSE
    ELSE IF Head(current_filter) = DoubleStar
    THEN \E i \in 0..(Len(current_path) - 1) :
            filter_check(SubSeq(current_path, i + 1, Len(current_path)),
                         Tail(current_filter))
    ELSE IF fnmatch(Head(current_path), Head(current_filter))
    THEN filter_check(Tail(current_path), Tail(current_filter))
    ELSE FALSE

InitMatch ==
    /\ mpc = "ready"
    /\ indexed_file = << >>
    /\ filter = << >>
    /\ matched = FALSE

\* one iteration of Mod.files: filter_check(f.split("/"), filter.parts)
ModFiles ==
    /\ mpc = "ready"
    /\ \E f \in IndexedFiles, parts \in Filters :
        /\ indexed_file' = f
        /\ filter' = parts
        /\ matched' = filter_check(SplitAll(f, "/"), parts)
    /\ mpc' = "checked"
    /\ UNCHANGED <<pipeVars, locVars, catVars, treatVars, renderVars, patVars>>

----------------------------------------------------------------------------
(* SpriteCategory.sprite_files: filters, replaces, the match-size handle *)

MaxStrings == 1         \* entries of excludes, and of includes
MaxReplaces == 1        \* items of replaces

\* global_mod_cache as from_yaml and replace_path find it: the mods "a",
\* "a_x" and "b", each a directory of the mods root, with its index
CachedNames == { <<"a">>, <<"a", "_", "x">>, <<"b">> }

XPng == <<"x">> \o PngSuffix
YPng == <<"y">> \o PngSuffix

AllFiles(mod_name) ==
    IF mod_name = <<"a", "_", "x">> THEN {XPng} ELSE {XPng, YPng}

ModCache == [n \in CachedNames |-> Mod(FoundAt(2, n), AllFiles(n))]

\* Image.open(...).size of the sprites
SpriteSize(mod_name, path) ==
    IF mod_name = <<"a">> /\ path = XPng THEN <<1, 1>>
    ELSE IF mod_name = <<"a">> THEN <<2, 1>>
    ELSE IF mod_name = <<"b">> THEN <<2, 2>>
    ELSE <<1, 2>>

\* strings of excludes and includes: "x", "a", "__a__/x", "?"
FilterStrings ==
    { <<"x">>, <<"a">>, <<"_", "_", "a", "_", "_", "/", "x">>, <<"?">> }

\* items of replaces: "x" -> "y", "__a__" -> "__b__", "y.png" -> "x.png",
\* "__/" -> "/"
ReplaceItems ==
    { << <<"x">>, <<"y">> >>,
      << <<"_", "_", "a", "_", "_">>, <<"_", "_", "b", "_", "_">> >>,
      << YPng, XPng >>,
      << <<"_", "_", "/">>, <<"/">> >> }

StringLists == UNION { [1..n -> FilterStrings] : n \in 0..MaxStrings }

\* a dict holds each key once
ReplaceDicts ==
    { r \in UNION { [1..n -> ReplaceItems] : n \in 0..MaxReplaces } :
        \A i, j \in DOMAIN r : i # j => r[i][1] # r[j][1] }

\* s.replace(find, replace) for a non-empty find
RECURSIVE StrReplace(_, _, _)
StrReplace(s, find, replace) ==
    IF Len(s) < Len(find) THEN s
    ELSE IF SubSeq(s, 1, Len(find)) = find
    THEN replace \o StrReplace(SubSeq(s, Len(find) + 1, Len(s)), find, replace)
    ELSE <<Head(s)>> \o StrReplace(Tail(s), find, replace)

\* the loop of replace_path over self.replaces.items()
RECURSIVE ReplaceLoop(_, _)
ReplaceLoop(new_path, replaces) ==
    IF Len(replaces) = 0 THEN new_path
    ELSE ReplaceLoop(StrReplace(new_path, Head(replaces)[1], Head(replaces)[2]),
                     Tail(replaces))

\* f"*{s}*"
Starred(s) == <<"*">> \o s \o <<"*">>

\* f"__{mod.name}__/{sprite_path}"
FullSpritePath(mod, sprite_path) ==
    <<"_", "_">> \o mod.name \o <<"_", "_", "/">> \o sprite_path

\* any(fnmatch(sprite_path, f"*{exclude}*") for exclude in self.excludes)
Excluded(sprite_path, excludes) ==
    \E i \in DOMAIN excludes : fnmatch(sprite_path, Starred(excludes[i]))

\* len(self.includes) > 0 and all(not fnmatch(sprite_path, f"*{include}*") ...)
NotIncluded(sprite_path, includes) ==
    /\ Len(includes) > 0
    /\ \A i \in DOMAIN includes : ~fnmatch(sprite_path, Starred(includes[i]))

NoFile == [mod |-> << >>, path |-> << >>]

\* mod.lazy_file(path) of the Mod cached under mod_name
LazyFile(mod_name, path) == [mod |-> mod_name, path |-> path]

NoSelection ==
    [outcome |-> "none", survived |-> FALSE, source |-> NoFile,
     match_size |-> NoFile, lua_path |-> << >>, new_path |-> << >>]

Dropped == [NoSelection EXCEPT !.outcome = "dropped"]

Raised(full_sprite_path, new_path) ==
    [NoSelection EXCEPT !.outcome = "raised", !.survived = TRUE,
                        !.lua_path = full_sprite_path, !.new_path = new_path]

\* replaced_mod != mod or replaced_sprite_path != sprite_path; two Mod
\* objects are the same object exactly when cached under the same name
MatchSizeNeeded(replaced_name, mod_name, replaced_sprite_path, sprite_path) ==
    replaced_name # mod_name \/ replaced_sprite_path # sprite_path

\* Mutant of Filtered: the filters look at the canonical address.
FilteredByAddress(mod_name, sprite_path, cat) ==
    \/ Excluded(FullSpritePath(ModCache[mod_name], sprite_path), cat.excludes)
    \/ NotIncluded(FullSpritePath(ModCache[mod_name], sprite_path), cat.includes)

\* the two `continue`s of the loop body
Filtered(mod_name, sprite_path, cat) ==
    \/ Excluded(sprite_path, cat.excludes)
    \/ NotIncluded(sprite_path, cat.includes)

\* the body of the inner loop of sprite_files for one sprite_path of
\* mod.files(pattern), replace_path included; cache is global_mod_cache
LoopBody(cache, mod_name, sprite_path, cat) ==
    LET mod == cache[mod_name]
        full_sprite_path == FullSpritePath(mod, sprite_path)
        new_path == ReplaceLoop(full_sprite_path, cat.replaces)
        parts == SplitOnce(new_path, "/")
        new_mod_name == parts[1]
        stripped == SubSeq(new_mod_name, 3, Len(new_mod_name) - 2)
    IN  IF Filtered(mod_name, sprite_path, cat) THEN Dropped
        ELSE IF ~Contains(new_path, "/") THEN Raised(full_sprite_path, new_path)
        ELSE IF ~(StartsWith(new_mod_name, <<"_", "_">>)
                  /\ EndsWith(new_mod_name, <<"_", "_">>))
        THEN Raised(full_sprite_path, new_path)
        ELSE IF stripped \notin DOMAIN cache THEN Raised(full_sprite_path, new_path)
        ELSE IF parts[2] \notin cache[stripped].all_files
        THEN Raised(full_sprite_path, new_path)
        ELSE [outcome |-> "yielded",
              survived |-> TRUE,
              source |-> LazyFile(stripped, parts[2]),
              match_size |-> IF MatchSizeNeeded(stripped, mod_name, parts[2], sprite_path)
                             THEN LazyFile(mod_name, sprite_path)
                             ELSE NoFile,
              lua_path |-> full_sprite_path,
              new_path |-> new_path]

InitCategory ==
    /\ kpc = "ready"
    /\ category = [excludes |-> << >>, includes |-> << >>, replaces |-> << >>]
    /\ candidate = NoFile
    /\ selection = NoSelection
    /\ out_size = <<0, 0>>

\* the categories a rule file can describe
Categories ==
    { [excludes |-> e, includes |-> i, replaces |-> r] :
        e \in StringLists, i \in StringLists, r \in ReplaceDicts }

\* one pass of the inner loop of sprite_files, for a category of cats
LoopPass(cats) ==
    /\ kpc = "ready"
    /\ \E cat \in cats, mod_name \in CachedNames :
        \E sprite_path \in ModCache[mod_name].all_files :
            /\ category' = cat
            /\ candidate' = LazyFile(mod_name, sprite_path)
            /\ selection' = LoopBody(ModCache, mod_name, sprite_path, cat)
    /\ kpc' = "resolved"

\* one pass of the inner loop of sprite_files
SpriteFiles ==
    /\ LoopPass(Categories)
    /\ UNCHANGED <<out_size, pipeVars, locVars, matchVars, treatVars, renderVars, patVars>>

\* process_sprite on a yielded selection: the size of what is saved
ProcessSprite ==
    /\ kpc = "resolved"
    /\ selection.outcome = "yielded"
    /\ LET sprite_size == SpriteSize(selection.source.mod, selection.source.path)
           new_size == SpriteSize(selection.match_size.mod, selection.match_size.path)
       IN  out_size' = IF selection.match_size # NoFile /\ sprite_size # new_size
                       THEN new_size ELSE sprite_size
    /\ kpc' = "rendered"
    /\ UNCHANGED <<category, candidate, selection, pipeVars, locVars, matchVars, treatVars, renderVars, patVars>>

----------------------------------------------------------------------------
(* SpriteTreatment: construction from the rule file, and tiles() *)

MaxRows == 2            \* rows of a tiling
MaxCols == 2            \* numbers in one row of a tiling
MaxSide == 3            \* width and height of an image, in pixels

\* the numbers written in a tiling row: "1", "0.5"
NumberTokens == { <<"1">>, <<"0", ".", "5">> }

\* " ".join(tokens)
RECURSIVE JoinTokens(_)
JoinTokens(tokens) ==
    IF Len(tokens) = 0 THEN << >>
    ELSE IF Len(tokens) = 1 THEN tokens[1]
    ELSE tokens[1] \o <<" ">> \o JoinTokens(Tail(tokens))

\* rows of a tiling as the rule file writes them; "" and " " hold no number
RowStrings ==
    { JoinTokens(t) : t \in UNION { [1..n -> NumberTokens] : n \in 0..MaxCols } }
        \cup { <<" ">> }

NoTiling == [given |-> FALSE, rows |-> << >>]

\* yaml_fragment.get("tiling"): None, or a list of strings
TilingValues ==
    {NoTiling} \cup
    { [given |-> TRUE, rows |-> r] :
        r \in UNION { [1..n -> RowStrings] : n \in 0..MaxRows } }

\* yaml scalars for saturation and brightness: 0.5, "50%", 1
ScalarValues ==
    { [type |-> "float", text |-> << >>, value |-> 50],
      [type |-> "str", text |-> <<"5", "0", "%">>, value |-> 0],
      [type |-> "int", text |-> << >>, value |-> 100] }

\* float(t) of a decimal numeral; numbers are kept in hundredths
ParseFloat(t) ==
    IF Contains(t, ".")
    THEN 100 * IntOf(SplitOnce(t, ".")[1])
         + IntOf(SubSeq(SplitOnce(t, ".")[2] \o <<"0", "0">>, 1, 2))
    ELSE 100 * IntOf(t)

\* _float_or_percent(val); ok is FALSE when it raises
Float_or_percent(val) ==
    IF val.type = "float" THEN [ok |-> TRUE, value |-> val.value]
    ELSE IF val.type # "str" \/ ~EndsWith(val.text, <<"%">>)
    THEN [ok |-> FALSE, value |-> 0]
    ELSE [ok |-> TRUE,
          value |-> ParseFloat(SubSeq(val.text, 1, Len(val.text) - 1)) \div 100]

\* row.split(): the runs of characters between whitespace
SplitWhitespace(row) ==
    LET NonEmpty(t) == Len(t) > 0
    IN  SelectSeq(SplitAll(row, " "), NonEmpty)

\* _parse_tiling(value)
Parse_tiling(value) ==
    IF ~value.given THEN << <<100>> >>
    ELSE [y \in DOMAIN value.rows |->
            [x \in DOMAIN SplitWhitespace(value.rows[y]) |->
                ParseFloat(SplitWhitespace(value.rows[y])[x])]]

\* _validate_tiling without the comparison of the row lengths
Validate_tiling_RowsFree(value) ==
    /\ Len(value) # 0
    /\ ~\E y \in DOMAIN value : Len(value[y]) = 0

\* _validate_tiling(inst, attr, value): TRUE when it raises nothing
Validate_tiling(value) ==
    /\ Len(value) # 0
    /\ ~\E y \in DOMAIN value : Len(value[y]) = 0
    /\ \A y1, y2 \in DOMAIN value : Len(value[y1]) = Len(value[y2])

NoTreatment == [saturation |-> 0, brightness |-> 0, tiling |-> << >>]

\* tiles() with the division done before the multiplication
TileRow_DivisionFirst(y_tile, y_index, y_count, width, height) ==
    [x \in DOMAIN y_tile |->
        << << (width \div Len(y_tile)) * (x - 1),
              (height \div y_count) * (y_index - 1),
              (width \div Len(y_tile)) * x,
              (height \div y_count) * y_index >>,
           y_tile[x] >>]

\* the tiles of one row (y_index and x count from 1 here, from 0 in the
\* code); int() of a non-negative quotient is its floor
TileRow(y_tile, y_index, y_count, width, height) ==
    [x \in DOMAIN y_tile |->
        << << (width * (x - 1)) \div Len(y_tile),
              (height * (y_index - 1)) \div y_count,
              (width * x) \div Len(y_tile),
              (height * y_index) \div y_count >>,
           y_tile[x] >>]

RECURSIVE TileRows(_, _, _, _)
TileRows(tiling, y_index, width, height) ==
    IF y_index > Len(tiling) THEN << >>
    ELSE TileRow(tiling[y_index], y_index, Len(tiling), width, height)
         \o TileRows(tiling, y_index + 1, width, height)

\* SpriteTreatment.tiles(width, height)
tiles(tiling, width, height) == TileRows(tiling, 1, width, height)

InitTreatment ==
    /\ tpc = "ready"
    /\ yaml_fragment = [saturation |-> CHOOSE v \in ScalarValues : v.type = "float",
                        brightness |-> CHOOSE v \in ScalarValues : v.type = "float",
                        tiling |-> NoTiling]
    /\ treatment = NoTreatment
    /\ image_size = <<0, 0>>
    /\ tile_set = << >>

\* SpriteTreatment.from_yaml: the converters, then the validator; a
\* ValueError makes SpriteCategory.from_yaml abort
FromYaml ==
    /\ tpc = "ready"
    /\ \E saturation \in ScalarValues, brightness \in ScalarValues,
          tiling \in TilingValues :
        /\ yaml_fragment' = [saturation |-> saturation, brightness |-> brightness,
                             tiling |-> tiling]
        /\ IF /\ Float_or_percent(saturation).ok
              /\ Float_or_percent(brightness).ok
              /\ Validate_tiling(Parse_tiling(tiling))
           THEN /\ treatment' = [saturation |-> Float_or_percent(saturation).value,
                                 brightness |-> Float_or_percent(brightness).value,
                                 tiling |-> Parse_tiling(tiling)]
                /\ tpc' = "built"
           ELSE /\ treatment' = NoTreatment
                /\ tpc' = "aborted"
    /\ UNCHANGED <<image_size, tile_set, pipeVars, locVars, matchVars, catVars, renderVars, patVars>>

\* list(treatment.tiles(width, height))
Tiles ==
    /\ tpc = "built"
    /\ \E width \in 1..MaxSide, height \in 1..MaxSide :
        /\ image_size' = <<width, height>>
        /\ tile_set' = tiles(treatment.tiling, width, height)
    /\ tpc' = "tiled"
    /\ UNCHANGED <<yaml_fragment, treatment, pipeVars, locVars, matchVars, catVars, renderVars, patVars>>

----------------------------------------------------------------------------
(* apply_transforms: colour matrix, tiling blend, alpha, resize *)

\* RGBA pixels of the sprites
Palette == << <<200, 100, 50, 255>>, <<10, 20, 30, 128>>, <<255, 255, 255, 0>> >>

\* an RGBA image: its size and its pixels by (x, y)
ImageOf(width, height, shift) ==
    [size |-> <<width, height>>,
     pixels |-> [xy \in (0..(width - 1)) \X (0..(height - 1)) |->
                    Palette[((xy[1] + xy[2] + shift) % 3) + 1]],
     resampled |-> FALSE]

Images == { ImageOf(w, h, k) : w \in 1..MaxSide, h \in 1..MaxSide, k \in 0..2 }

\* treatment.color_space: the weights X, Y, Z, in hundredths
ColorSpaces == { <<31, 61, 8>>, <<30, 59, 11>> }

\* treatment.tiling as the validator accepts it, strengths in hundredths
RenderTilings ==
    { << <<100>> >>, << <<0>> >>, << <<50>> >>, << <<100, 0>> >>,
      << <<100>>, <<50>> >>, << <<0, 100>>, <<100, 50>> >> }

\* the treatment objects handed to apply_transforms; hue 0
Treatments ==
    { [saturation |-> sat, brightness |-> bri, hue |-> 0, color_space |-> cs,
       tiling |-> t] :
        sat \in {0, 50, 100}, bri \in {50, 100}, cs \in ColorSpaces,
        t \in RenderTilings }

NoSize == [given |-> FALSE, size |-> <<0, 0>>]

\* new_size: None, or the size of the match-size sprite
NewSizes == { NoSize, [given |-> TRUE, size |-> <<1, 1>>],
              [given |-> TRUE, size |-> <<2, 2>>] }

\* saturation_matric with nothing off the diagonal
Saturation_matric_DiagonalOnly(cs, saturation) ==
    << << 100 * cs[1] + (100 - cs[1]) * saturation, 0, 0 >>,
       << 0, 100 * cs[2] + (100 - cs[2]) * saturation, 0 >>,
       << 0, 0, 100 * cs[3] + (100 - cs[3]) * saturation >> >>

\* ColorSpace.saturation_matric(saturation); entries in 1/10000
Saturation_matric(cs, saturation) ==
    << << 100 * cs[1] + (100 - cs[1]) * saturation,
          cs[2] * (100 - saturation),
          cs[3] * (100 - saturation) >>,
       << cs[1] * (100 - saturation),
          100 * cs[2] + (100 - cs[2]) * saturation,
          cs[3] * (100 - saturation) >>,
       << cs[1] * (100 - saturation),
          cs[2] * (100 - saturation),
          100 * cs[3] + (100 - cs[3]) * saturation >> >>

\* ColorSpace.scale_matrix(m, scale)
Scale_matrix(m, scale) ==
    [i \in DOMAIN m |-> [j \in DOMAIN m[i] |-> m[i][j] * scale]]

\* ColorSpace.flatten_matrix(m): a fourth entry 0 closes each row
Flatten_matrix(m) == [i \in DOMAIN m |-> m[i] \o <<0>>]

\* ColorSpace.matrix(saturation, brightness, hue) for hue 0; entries in
\* 1/1000000, so a brightness of 1 (no scaling in the code) multiplies by 100
Matrix(cs, saturation, brightness, hue) ==
    Flatten_matrix(
        IF brightness # 100
        THEN Scale_matrix(Saturation_matric(cs, saturation), brightness)
        ELSE Scale_matrix(Saturation_matric(cs, saturation), 100))

\* Pillow's CLIP8
Clip8(v) == IF v <= 0 THEN 0 ELSE IF v < 256 THEN v ELSE 255

\* img_rgb.convert("RGB", matrix) on one pixel: each row applied to
\* (r, g, b), plus the row's fourth entry, plus 0.5, truncated and clipped
ConvertPixel(m, pixel) ==
    [c \in 1..3 |->
        Clip8((2 * (m[c][1] * pixel[1] + m[c][2] * pixel[2] + m[c][3] * pixel[3]
                    + m[c][4]) + 1000000) \div 2000000)]

\* Image.blend(image_box, converted_box, tile_strength) on one pixel
BlendPixel(original, converted, tile_strength) ==
    [c \in 1..3 |->
        (100 * original[c] + tile_strength * (converted[c] - original[c])) \div 100]

\* the pixel (x, y) lies in bounding_box = (left, upper, right, lower)
InBox(xy, bounding_box) ==
    /\ bounding_box[1] <= xy[1] /\ xy[1] < bounding_box[3]
    /\ bounding_box[2] <= xy[2] /\ xy[2] < bounding_box[4]

\* the body of the tile loop where a tile of strength 1 gets the original
\* pixels back
TileStep_RestoresOriginal(img_rgb, img_converted, tile) ==
    [xy \in DOMAIN img_converted |->
        IF InBox(xy, tile[1])
        THEN BlendPixel(img_rgb[xy], img_converted[xy],
                        IF tile[2] = 100 THEN 0 ELSE tile[2])
        ELSE img_converted[xy]]

\* the body of the tile loop: a tile of strength 1 is skipped, any other is
\* cropped from both images, blended and pasted into img_converted
TileStep(img_rgb, img_converted, tile) ==
    IF tile[2] = 100 THEN img_converted
    ELSE [xy \in DOMAIN img_converted |->
            IF InBox(xy, tile[1])
            THEN BlendPixel(img_rgb[xy], img_converted[xy], tile[2])
            ELSE img_converted[xy]]

\* for bounding_box, tile_strength in treatment.tiles(image.width, image.height)
RECURSIVE TileLoop(_, _, _)
TileLoop(img_rgb, img_converted, tile_seq) ==
    IF Len(tile_seq) = 0 THEN img_converted
    ELSE TileLoop(img_rgb, TileStep(img_rgb, img_converted, Head(tile_seq)),
                  Tail(tile_seq))

\* sat and bri after `if bright:`
Brightened(value, bright) == IF bright /\ value <= 90 THEN value + 10 ELSE value

\* apply_transforms(image, treatment, bright, new_size); what resize() makes
\* of the pixels is not computed, the result is marked resampled instead
apply_transforms(image, treat, bright, new_size) ==
    LET sat == Brightened(treat.saturation, bright)
        bri == Brightened(treat.brightness, bright)
        transformation_matrix == Matrix(treat.color_space, sat, bri, treat.hue)
        img_rgb == [xy \in DOMAIN image.pixels |-> SubSeq(image.pixels[xy], 1, 3)]
        img_converted == [xy \in DOMAIN img_rgb |->
                             ConvertPixel(transformation_matrix, img_rgb[xy])]
        blended == TileLoop(img_rgb, img_converted,
                            tiles(treat.tiling, image.size[1], image.size[2]))
        with_alpha == [xy \in DOMAIN blended |-> blended[xy] \o <<image.pixels[xy][4]>>]
    IN  IF new_size.given /\ image.size # new_size.size
        THEN [size |-> new_size.size, pixels |-> with_alpha, resampled |-> TRUE]
        ELSE [size |-> image.size, pixels |-> with_alpha, resampled |-> FALSE]

NoImage == [size |-> <<0, 0>>, pixels |-> << >>, resampled |-> FALSE]

InitRender ==
    /\ rpc = "ready"
    /\ call = [image |-> NoImage,
               treatment |-> [saturation |-> 0, brightness |-> 0, hue |-> 0,
                              color_space |-> <<0, 0, 0>>, tiling |-> << >>],
               bright |-> FALSE, new_size |-> NoSize]
    /\ result = NoImage

\* one call of apply_transforms
ApplyTransforms ==
    /\ rpc = "ready"
    /\ \E image \in Images, treat \in Treatments, bright \in BOOLEAN,
          new_size \in NewSizes :
        /\ call' = [image |-> image, treatment |-> treat, bright |-> bright,
                    new_size |-> new_size]
        /\ result' = apply_transforms(image, treat, bright, new_size)
    /\ rpc' = "done"
    /\ UNCHANGED <<pipeVars, locVars, matchVars, catVars, treatVars, patVars>>

----------------------------------------------------------------------------
(* gen_pack_files: the for statement over category.sprite_files() *)

\* categories of the packs run here: no filters; no replaces, "x" -> "y",
\* or "__/" -> "/"
DispatchCategories ==
    { [excludes |-> << >>, includes |-> << >>, replaces |-> r] :
        r \in { << >>,
                << << <<"x">>, <<"y">> >> >>,
                << << <<"_", "_", "/">>, <<"/">> >> >> } }

\* the tuple sprite_files yields
YieldedTuple(sel) == <<sel.source, sel.match_size, sel.lua_path>>

\* the targets of `for lazy_source_file, lua_path in category.sprite_files()`
LoopTargets == <<"lazy_source_file", "lua_path">>

\* the keywords of the submit(...) call, handed on to process_sprite
SubmitKeywords == {"lazy_source_file", "target_file_path", "treatment"}

\* the parameters of process_sprite, none with a default
ProcessSpriteParameters ==
    {"lazy_source_file", "lazy_match_size_file", "target_file_path", "treatment",
     "bright"}

\* func(**kwargs) binds when every parameter gets a value and no keyword is
\* left over
Binds(keywords, parameters) == keywords = parameters

\* the attributes of SpriteTreatment, and those apply_transforms reads
TreatmentAttributes == {"saturation", "brightness", "tiling"}
AttributesRead == {"saturation", "brightness", "color_space", "hue"}

UnpackError == [kind |-> "ValueError", task |-> 0]
ResolverError == [kind |-> "resolver", task |-> 0]

\* the next pass of a category's sprite_files(), driven by the for statement
DispatchSpriteFiles ==
    /\ pc = "submit"
    /\ ci <= NumCategories
    /\ LoopPass(DispatchCategories)
    /\ UNCHANGED <<out_size, pipeVars, locVars, matchVars, treatVars, renderVars, patVars>>

\* replace_path or lazy_file raised inside the generator: the exception
\* leaves the with-body
GeneratorRaises ==
    /\ pc = "submit"
    /\ kpc = "resolved"
    /\ selection.outcome = "raised"
    /\ err' = ResolverError
    /\ pc' = "except"
    /\ xi' = 1
    /\ kpc' = "consumed"
    /\ UNCHANGED <<dry_run, is_vanilla, ci, si, marked_for_processing, futures, wi, files,
                   configWritten, firstFailed, pendingAtFail, category, candidate,
                   selection, out_size, locVars, matchVars, treatVars, renderVars, patVars>>

\* the for statement takes what sprite_files yielded: the tuple is unpacked
\* into the loop targets (ValueError unless the counts agree), then the body
\* runs: collision check, mark, submit
ForStatement ==
    /\ pc = "submit"
    /\ kpc = "resolved"
    /\ selection.outcome = "yielded"
    /\ kpc' = "consumed"
    /\ IF Len(YieldedTuple(selection)) # Len(LoopTargets)
       THEN /\ err' = UnpackError
            /\ pc' = "except"
            /\ xi' = 1
            /\ UNCHANGED <<marked_for_processing, futures>>
       ELSE LET lua_path == YieldedTuple(selection)[2]
            IN  IF lua_path \in DOMAIN marked_for_processing
                THEN /\ err' = AbortError
                     /\ pc' = "except"
                     /\ xi' = 1
                     /\ UNCHANGED <<marked_for_processing, futures>>
                ELSE /\ marked_for_processing' = marked_for_processing @@ (lua_path :> ci)
                     /\ futures' = IF dry_run THEN futures ELSE Submit(lua_path, ci)
                     /\ UNCHANGED <<err, pc, xi>>
    /\ UNCHANGED <<dry_run, is_vanilla, ci, si, wi, files, configWritten, firstFailed,
                   pendingAtFail, category, candidate, selection, out_size, locVars,
                   matchVars, treatVars, renderVars, patVars>>

----------------------------------------------------------------------------
(* gen_pack_files over SpriteCategory.patterns: from_yaml builds one pattern *)
(* per leaf of the rule tree, sprite_files walks them in order              *)

\* the index of the mods "a" and "b": ab.png, b.png, d/a.png
PatternIndex ==
    { <<"a", "b">> \o PngSuffix, <<"b">> \o PngSuffix, <<"d", "/", "a">> \o PngSuffix }

\* global_mod_cache once from_yaml has opened the mods "a" and "b"
PatternCache == [n \in { <<"a">>, <<"b">> } |-> Mod(FoundAt(2, n), PatternIndex)]

\* nodes of a rule tree: None, a string, a list of nodes, a dict of nodes
NoneNode == [kind |-> "none", value |-> << >>, items |-> << >>]
StrNode(s) == [kind |-> "str", value |-> s, items |-> << >>]
ListNode(nodes) == [kind |-> "list", value |-> << >>, items |-> nodes]
DictNode(pairs) == [kind |-> "dict", value |-> << >>, items |-> pairs]

\* parse_mod_patterns(path, node), paths kept as their parts
RECURSIVE parse_mod_patterns(_, _)
RECURSIVE ChainPatterns(_, _, _)
ChainPatterns(path, nodes, keyed) ==
    IF Len(nodes) = 0 THEN << >>
    ELSE (IF keyed
          THEN parse_mod_patterns(Append(path, Head(nodes)[1]), Head(nodes)[2])
          ELSE parse_mod_patterns(path, Head(nodes)))
         \o ChainPatterns(path, Tail(nodes), keyed)

parse_mod_patterns(path, node) ==
    IF node.kind = "none" THEN << path \o <<DoubleStar, StarPng>> >>
    ELSE IF node.kind = "list" THEN ChainPatterns(path, node.items, FALSE)
    ELSE IF node.kind # "dict"
    THEN << path \o <<DoubleStar, <<"*">> \o node.value \o StarPng>> >>
    ELSE ChainPatterns(path, node.items, TRUE)

\* the rule files of the packs run here, as from_yaml reads them: the mod
\* keys with their nodes, and excludes
\*   a:            a: [a, b]      a: {d: }      a: [b]      b:      a:
\*                                                                excludes: [d]
PatternRules ==
    { [definition |-> << <<mod_name, node>> >>, excludes |-> e] :
        mod_name \in {<<"a">>}, e \in {<< >>},
        node \in { NoneNode,
                   ListNode(<< StrNode(<<"a">>), StrNode(<<"b">>) >>),
                   DictNode(<< << <<"d">>, NoneNode >> >>),
                   ListNode(<< StrNode(<<"b">>) >>) } }
    \cup { [definition |-> << << <<"b">>, NoneNode >> >>, excludes |-> << >>],
           [definition |-> << << <<"a">>, NoneNode >> >>, excludes |-> << <<"d">> >>] }

\* self.patterns: for each mod key, (mod, p) for p in parse_mod_patterns
RECURSIVE PatternsOf(_)
PatternsOf(definition) ==
    IF Len(definition) = 0 THEN << >>
    ELSE LET mod_name == Head(definition)[1]
             found == parse_mod_patterns(<< >>, Head(definition)[2])
         IN  [i \in DOMAIN found |-> [mod |-> mod_name, pattern |-> found[i]]]
             \o PatternsOf(Tail(definition))

\* the SpriteCategory from_yaml returns for a rule file
CategoryOf(rule) ==
    [patterns |-> PatternsOf(rule.definition), excludes |-> rule.excludes,
     includes |-> << >>, replaces |-> << >>]

\* mod.files(pattern): the indexed paths filter_check accepts
Files(mod, pattern) ==
    { f \in mod.all_files : filter_check(SplitAll(f, "/"), pattern) }

NoCollision == [lua_path |-> << >>, category |-> 0, pattern |-> 0, first |-> <<0, 0>>]

IdlePatterns ==
    /\ rules = << >>
    /\ pi = 1
    /\ seen = {}
    /\ claimant = << >>
    /\ collided = NoCollision

InitPatterns ==
    /\ rules \in [1..NumCategories -> PatternRules]
    /\ pi = 1
    /\ seen = {}
    /\ claimant = << >>
    /\ collided = NoCollision

\* Mutant of NextSprite: a selection whose address the same category has
\* claimed is passed over.
NextSpriteSkipsOwn ==
    /\ pc = "submit"
    /\ ci <= NumCategories
    /\ pi <= Len(CategoryOf(rules[ci]).patterns)
    /\ LET cat == CategoryOf(rules[ci])
           mod_name == cat.patterns[pi].mod
       IN  \E sprite_path \in Files(PatternCache[mod_name], cat.patterns[pi].pattern) \ seen :
            LET sel == LoopBody(PatternCache, mod_name, sprite_path, cat)
                lua_path == sel.lua_path
            IN  /\ seen' = seen \cup {sprite_path}
                /\ IF sel.outcome = "dropped"
                   THEN UNCHANGED <<marked_for_processing, futures, si, err, pc, xi,
                                    claimant, collided>>
                   ELSE IF sel.outcome = "raised"
                   THEN /\ err' = ResolverError
                        /\ pc' = "except"
                        /\ xi' = 1
                        /\ UNCHANGED <<marked_for_processing, futures, si, claimant,
                                       collided>>
                   ELSE IF lua_path \in DOMAIN marked_for_processing
                           /\ marked_for_processing[lua_path] = ci
                   THEN UNCHANGED <<marked_for_processing, futures, si, err, pc, xi,
                                    claimant, collided>>
                   ELSE IF lua_path \in DOMAIN marked_for_processing
                   THEN /\ err' = AbortError
                        /\ pc' = "except"
                        /\ xi' = 1
                        /\ collided' = [lua_path |-> lua_path, category |-> ci,
                                        pattern |-> pi, first |-> claimant[lua_path]]
                        /\ UNCHANGED <<marked_for_processing, futures, si, claimant>>
                   ELSE /\ marked_for_processing' =
                                marked_for_processing @@ (lua_path :> ci)
                        /\ claimant' = claimant @@ (lua_path :> <<ci, pi>>)
                        /\ futures' = IF dry_run THEN futures ELSE Submit(lua_path, ci)
                        /\ si' = si + 1
                        /\ UNCHANGED <<err, pc, xi, collided>>
    /\ UNCHANGED <<dry_run, is_vanilla, ci, wi, files, configWritten, firstFailed,
                   pendingAtFail, rules, pi, locVars, matchVars, catVars, treatVars,
                   renderVars>>

\* mod.files(pattern) produces its next path (all_files is a set: any order);
\* the body of sprite_files' inner loop runs on it and, when it yields, the
\* body of the for statement of gen_pack_files: collision check, mark, submit
NextSprite ==
    /\ pc = "submit"
    /\ ci <= NumCategories
    /\ pi <= Len(CategoryOf(rules[ci]).patterns)
    /\ LET cat == CategoryOf(rules[ci])
           mod_name == cat.patterns[pi].mod
       IN  \E sprite_path \in Files(PatternCache[mod_name], cat.patterns[pi].pattern) \ seen :
            LET sel == LoopBody(PatternCache, mod_name, sprite_path, cat)
                lua_path == sel.lua_path
            IN  /\ seen' = seen \cup {sprite_path}
                /\ IF sel.outcome = "dropped"
                   THEN UNCHANGED <<marked_for_processing, futures, si, err, pc, xi,
                                    claimant, collided>>
                   ELSE IF sel.outcome = "raised"
                   THEN /\ err' = ResolverError
                        /\ pc' = "except"
                        /\ xi' = 1
                        /\ UNCHANGED <<marked_for_processing, futures, si, claimant,
                                       collided>>
                   ELSE IF lua_path \in DOMAIN marked_for_processing
                   THEN /\ err' = AbortError
                        /\ pc' = "except"
                        /\ xi' = 1
                        /\ collided' = [lua_path |-> lua_path, category |-> ci,
                                        pattern |-> pi, first |-> claimant[lua_path]]
                        /\ UNCHANGED <<marked_for_processing, futures, si, claimant>>
                   ELSE /\ marked_for_processing' =
                                marked_for_processing @@ (lua_path :> ci)
                        /\ claimant' = claimant @@ (lua_path :> <<ci, pi>>)
                        /\ futures' = IF dry_run THEN futures ELSE Submit(lua_path, ci)
                        /\ si' = si + 1
                        /\ UNCHANGED <<err, pc, xi, collided>>
    /\ UNCHANGED <<dry_run, is_vanilla, ci, wi, files, configWritten, firstFailed,
                   pendingAtFail, rules, pi, locVars, matchVars, catVars, treatVars,
                   renderVars>>

\* mod.files(pattern) is exhausted: the outer loop of sprite_files goes on
\* to the next pattern
NextPattern ==
    /\ pc = "submit"
    /\ ci <= NumCategories
    /\ pi <= Len(CategoryOf(rules[ci]).patterns)
    /\ LET p == CategoryOf(rules[ci]).patterns[pi]
       IN  Files(PatternCache[p.mod], p.pattern) \subseteq seen
    /\ pi' = pi + 1
    /\ seen' = {}
    /\ UNCHANGED <<pipeVars, locVars, matchVars, catVars, treatVars, renderVars, rules,
                   claimant, collided>>

\* self.patterns is exhausted: sprite_files returns and the for statement
\* over the categories goes on, or the with-body ends
PatternsDone ==
    /\ pc = "submit"
    /\ ci <= NumCategories
    /\ pi > Len(CategoryOf(rules[ci]).patterns)
    /\ ci' = ci + 1
    /\ si' = 0
    /\ pi' = 1
    /\ seen' = {}
    /\ pc' = IF ci = NumCategories THEN "wait" ELSE "submit"
    /\ wi' = 1
    /\ UNCHANGED <<dry_run, is_vanilla, marked_for_processing, futures, xi, err, files,
                   configWritten, firstFailed, pendingAtFail, rules, claimant, collided,
                   locVars, matchVars, catVars, treatVars, renderVars>>

----------------------------------------------------------------------------
(* Specifications *)

\* the locator's state while the pipeline runs, and the reverse
IdleLocate ==
    /\ fs = [r \in DOMAIN SourceDirs |-> {}]
    /\ global_mod_cache = << >>
    /\ lastCall = NoCall
    /\ resolutions = [n \in RequestedNames |-> 0]
    /\ constructions = [n \in RequestedNames |-> 0]
    /\ firstBuilt = << >>
    /\ listed = [name |-> << >>, files |-> {}]
    /\ lpc = "ready"
    /\ nCalls = 0

IdlePipe ==
    /\ InitPipe
    /\ dry_run = TRUE
    /\ is_vanilla = FALSE

IdlePure == InitMatch /\ InitCategory /\ InitTreatment /\ InitRender /\ IdlePatterns

Init == InitPipe /\ IdleLocate /\ IdlePure

Next ==
    \/ MakeTask
    \/ CollisionAbort
    \/ NextCategory
    \/ WaitResult
    \/ WaitDone
    \/ CancelStep
    \/ CancelDone
    \/ Shutdown
    \/ WriteConfig
    \/ StartTask
    \/ FinishTask
    \/ FailTask

Spec == Init /\ [][Next]_vars

InitLocateSpec == InitLocate /\ IdlePipe /\ IdlePure

NextLocate ==
    \/ CacheHit
    \/ LocateFail
    \/ LocateBuild
    \/ BuildFail
    \/ ListFiles

SpecLocate == InitLocateSpec /\ [][NextLocate]_vars

InitPure == IdlePure /\ IdlePipe /\ IdleLocate

NextMatch == ModFiles

SpecMatch == InitPure /\ [][NextMatch]_vars

NextCategoryFiles ==
    \/ SpriteFiles
    \/ ProcessSprite

SpecCategory == InitPure /\ [][NextCategoryFiles]_vars

NextTreatment ==
    \/ FromYaml
    \/ Tiles

SpecTreatment == InitPure /\ [][NextTreatment]_vars

NextDispatch ==
    \/ DispatchSpriteFiles
    \/ GeneratorRaises
    \/ ForStatement
    \/ NextCategory
    \/ WaitDone
    \/ CancelDone
    \/ Shutdown
    \/ WriteConfig

SpecDispatch == Init /\ [][NextDispatch]_vars

\* the submission phase and what follows it while no worker has taken a task
NextPatterns ==
    \/ NextSprite
    \/ NextPattern
    \/ PatternsDone
    \/ WaitDone
    \/ CancelStep
    \/ CancelDone
    \/ Shutdown
    \/ WriteConfig

InitPatternsSpec ==
    InitPipe /\ IdleLocate /\ InitMatch /\ InitCategory /\ InitTreatment /\ InitRender
    /\ InitPatterns

SpecPatterns == InitPatternsSpec /\ [][NextPatterns]_vars

NextRender == ApplyTransforms

SpecRender == InitPure /\ [][NextRender]_vars

----------------------------------------------------------------------------
(* Claims about the concurrent renderer (specification Spec) *)

RunEnded == pc \in {"returned", "raised", "finished"}

AllCompleted == \A i \in DOMAIN futures : futures[i].state = "Completed"

SomeFailed == \E i \in DOMAIN futures : futures[i].state = "Failed"

\* C1: from the moment the first task fails, every task that is Pending at
\* that moment goes to Cancelled: it is never Running (nor Completed or
\* Failed), its output file is never written, it is not the error the run
\* reports, and it is Cancelled when the run has ended.
C1_PendingAtFirstFailureIsCancelled ==
    \A i \in pendingAtFail :
        /\ futures[i].state \in {"Pending", "Cancelled"}
        /\ futures[i].target \notin files
        /\ err # TaskError(i)
        /\ RunEnded => futures[i].state = "Cancelled"

\* C2: for a run whose submission phase completed (the with-body did not
\* raise), the run returns success exactly when every submitted task is
\* Completed, and it ends by raising whenever some task Failed.
C2_SuccessIffAllCompleted ==
    /\ pc \in {"returned", "finished"} => AllCompleted
    /\ (pc = "raised" /\ err.kind # "abort") => ~AllCompleted
    /\ (RunEnded /\ SomeFailed) => pc = "raised"

\* C2 witness: a run ended by raising a task's error with one task Completed
\* and two tasks Failed
C2_Witness ==
    /\ pc = "raised"
    /\ err.kind = "task"
    /\ \E i, j, k \in DOMAIN futures :
        /\ futures[i].state = "Completed"
        /\ futures[j].state = "Failed"
        /\ futures[k].state = "Failed"
        /\ j # k

\* C3: when the run ends by raising a task's error, that error is the error
\* of the task that transitioned to Failed first in time.
C3_RaisesFirstFailureInTime ==
    (pc = "raised" /\ err.kind = "task") => err.task = firstFailed

\* C4: once the run has returned (with success or with an error) every
\* submitted task is Completed, Failed or Cancelled, and no output file is
\* written from then on.
C4_AllTerminalAtReturn ==
    /\ [](RunEnded => \A i \in DOMAIN futures : Done(futures[i].state))
    /\ [][RunEnded => files' = files]_vars

\* C4 witness: a run that ended with an error, with Completed, Failed and
\* Cancelled tasks
C4_Witness ==
    /\ pc = "raised"
    /\ \E i, j, k \in DOMAIN futures :
        /\ futures[i].state = "Completed"
        /\ futures[j].state = "Failed"
        /\ futures[k].state = "Cancelled"

C6_TargetsUnique ==
    /\ \A i, j \in DOMAIN futures :
        i # j => futures[i].target # futures[j].target
    /\ \A i \in DOMAIN futures :
        \E lua_path \in DOMAIN marked_for_processing :
            /\ TargetPath(lua_path) = futures[i].target
            /\ marked_for_processing[lua_path] = futures[i].source

\* C6 witness: a second claim of an address aborted the run after two tasks
\* had been submitted
C6_Witness ==
    /\ err = AbortError
    /\ Len(futures) >= 2

----------------------------------------------------------------------------
(* Claims about the mod locator (specification SpecLocate) *)

\* the `<version>` of an entry `<name>_<version>` or `<name>_<version>.zip`
EntryVersion(entry, mod_name) ==
    LET base == IF EndsWith(entry, ZipSuffix) THEN Stem(entry) ELSE entry
    IN  SubSeq(base, Len(mod_name) + 2, Len(base))

IsExactEntry(entry, mod_name) ==
    entry = mod_name \/ entry = mod_name \o ZipSuffix

IsVersionedEntry(entry, mod_name) ==
    /\ ~IsExactEntry(entry, mod_name)
    /\ StartsWith(entry, mod_name \o <<"_">>)

\* a versioned entry whose whole version is dot-separated integers
IsParsedVersionedEntry(entry, mod_name) ==
    /\ IsVersionedEntry(entry, mod_name)
    /\ split_version(EntryVersion(entry, mod_name)).ok

VersionOf(entry, mod_name) == split_version(EntryVersion(entry, mod_name)).value

\* the path the last call's find_mod returned
LastPath == lastCall.mod.mod_path

\* C7: when the first search root that holds anything for the name holds both
\* an exact entry (<name> or <name>.zip) and a versioned entry, find_mod
\* returns an exact entry of that root, whatever the enumeration order.
C7_ExactBeatsVersioned ==
    lastCall.kind = "resolved" =>
        \A r \in DOMAIN SourceDirs :
            ( /\ \E e \in fs[r] : IsExactEntry(e, lastCall.name)
              /\ \E e \in fs[r] : IsParsedVersionedEntry(e, lastCall.name)
              /\ \A q \in 1..(r - 1) : \A e \in fs[q] :
                    /\ ~IsExactEntry(e, lastCall.name)
                    /\ ~IsVersionedEntry(e, lastCall.name) )
            => ( /\ LastPath.found
                 /\ LastPath.root = r
                 /\ IsExactEntry(LastPath.entry, lastCall.name) )

\* C8: when no root holds an exact entry and the versioned entries of the
\* name all lie in one root, find_mod returns one of them whose version no
\* other exceeds under component-wise integer comparison of all components.
C8_GreatestVersionSelected ==
    lastCall.kind = "resolved" =>
        \A r \in DOMAIN SourceDirs :
            ( /\ \A q \in DOMAIN SourceDirs : \A e \in fs[q] :
                    /\ ~IsExactEntry(e, lastCall.name)
                    /\ IsVersionedEntry(e, lastCall.name) => q = r
              /\ \E e \in fs[r] : IsParsedVersionedEntry(e, lastCall.name) )
            => ( /\ LastPath.found
                 /\ LastPath.root = r
                 /\ IsParsedVersionedEntry(LastPath.entry, lastCall.name)
                 /\ \A e \in fs[r] :
                      IsParsedVersionedEntry(e, lastCall.name) =>
                        ~ListGreater(VersionOf(e, lastCall.name),
                                     VersionOf(LastPath.entry, lastCall.name)) )

\* C9: find_mod fails exactly when no root holds <name>, <name>.zip or a
\* versioned entry whose version parses as dot-separated integers, and an
\* entry whose version does not parse is never the one returned.
C9_FailsIffNoCandidate ==
    lastCall.kind = "resolved" =>
        /\ ~LastPath.found <=>
             \A r \in DOMAIN SourceDirs : \A e \in fs[r] :
                /\ ~IsExactEntry(e, lastCall.name)
                /\ ~IsParsedVersionedEntry(e, lastCall.name)
        /\ LastPath.found =>
             ( IsVersionedEntry(LastPath.entry, lastCall.name)
               => IsParsedVersionedEntry(LastPath.entry, lastCall.name) )

\* C10: every successful call returns the Mod the first successful call with
\* that name built, the cache keeps that Mod unchanged (its index included),
\* and find_mod and Mod(...) run at most once per name.
C10_CachedByName ==
    /\ \A n \in DOMAIN firstBuilt :
         /\ n \in DOMAIN global_mod_cache
         /\ global_mod_cache[n] = firstBuilt[n]
    /\ lastCall.ok =>
         /\ lastCall.name \in DOMAIN firstBuilt
         /\ lastCall.mod = firstBuilt[lastCall.name]
    /\ \A n \in RequestedNames : resolutions[n] <= 1 /\ constructions[n] <= 1

\* C10 witness: a call answered from the cache, after the index was read,
\* for a name that find_mod could now resolve to another path
C10_Witness ==
    /\ lastCall.kind = "hit"
    /\ listed.name = lastCall.name
    /\ \E p \in Resolutions(lastCall.name) : p # lastCall.mod.mod_path

----------------------------------------------------------------------------
(* Claims about the path filter (specification SpecMatch) *)

\* pattern characters fnmatch gives a meaning to
IsLiteral(segment) == ~Contains(segment, "*") /\ ~Contains(segment, "?")

\* the path can be split along the filter: a "**" takes zero or more whole
\* segments, every other filter segment glob-matches exactly one segment
RECURSIVE SplitMatches(_, _)
SplitMatches(path, parts) ==
    IF Len(parts) = 0 THEN Len(path) = 0
    ELSE IF Head(parts) = DoubleStar
    THEN \E k \in 0..Len(path) :
            SplitMatches(SubSeq(path, k + 1, Len(path)), Tail(parts))
    ELSE /\ Len(path) > 0
         /\ fnmatch(Head(path), Head(parts))
         /\ SplitMatches(Tail(path), Tail(parts))

\* C11: filter_check answers True exactly when the path can be split so that
\* every literal segment equals one path segment, every fragment wildcard
\* matches one path segment and every "**" matches zero or more whole
\* segments, wherever the "**" stands in the filter.
C11_MatchesIffSplitExists ==
    mpc = "checked" =>
        (matched <=> SplitMatches(SplitAll(indexed_file, "/"), filter))

\* literal directory segments, then "**", then "*.png"
IsDirPattern(parts) ==
    /\ Len(parts) >= 3
    /\ parts[Len(parts)] = StarPng
    /\ parts[Len(parts) - 1] = DoubleStar
    /\ \A i \in 1..(Len(parts) - 2) : IsLiteral(parts[i])

\* the path lies under the directory of the pattern and its name ends in .png
IsPngUnder(path, parts) ==
    /\ Len(path) > Len(parts) - 2
    /\ SubSeq(path, 1, Len(parts) - 2) = SubSeq(parts, 1, Len(parts) - 2)
    /\ EndsWith(path[Len(path)], PngSuffix)

\* C12: the pattern <dir>/**/*.png matches every .png path under <dir> at any
\* depth, a file directly inside <dir> included, and matches no path whose
\* last segment does not end in .png or that does not start with <dir>.
C12_DirPatternMatchesPngsUnderDir ==
    (mpc = "checked" /\ IsDirPattern(filter)) =>
        (matched <=> IsPngUnder(SplitAll(indexed_file, "/"), filter))

\* a file directly inside <dir> is matched, the "**" absorbing nothing
C12_Witness ==
    /\ mpc = "checked"
    /\ filter = << <<"a">>, DoubleStar, StarPng >>
    /\ SplitAll(indexed_file, "/") = << <<"a">>, <<"d">> \o PngSuffix >>
    /\ matched

----------------------------------------------------------------------------
(* Claims about sprite_files (specification SpecCategory) *)

\* sub occurs in s, character for character
IsSubstring(sub, s) ==
    \E i \in 0..(Len(s) - Len(sub)) : SubSeq(s, i + 1, i + Len(sub)) = sub

\* some stretch of s has the length of pat and agrees with it wherever pat
\* does not hold the wildcard "?"
OccursAsGlob(pat, s) ==
    \E i \in 0..(Len(s) - Len(pat)) :
        \A j \in DOMAIN pat : pat[j] = "?" \/ pat[j] = s[i + j]

CanonicalAddress == FullSpritePath(ModCache[candidate.mod], candidate.path)

C14_MatchSizeIffAddressReplaced ==
    selection.outcome = "yielded" =>
        /\ selection.match_size # NoFile <=> selection.new_path # selection.lua_path
        /\ selection.match_size # NoFile => selection.match_size = candidate
        /\ kpc = "rendered" => out_size = SpriteSize(candidate.mod, candidate.path)

----------------------------------------------------------------------------
(* Claims about SpriteTreatment (specification SpecTreatment) *)

\* the numbers a row of the rule file holds: the places where a run of
\* characters other than the blank begins
ColumnsOf(row) ==
    Cardinality({i \in DOMAIN row : row[i] # " " /\ (i = 1 \/ row[i - 1] = " ")})

GridGiven == tpc # "ready" /\ yaml_fragment.tiling.given

ScalarsAccepted ==
    /\ yaml_fragment.saturation.type # "int"
    /\ yaml_fragment.brightness.type # "int"

HasRowsAndColumns ==
    /\ Len(yaml_fragment.tiling.rows) >= 1
    /\ \A y \in DOMAIN yaml_fragment.tiling.rows :
           ColumnsOf(yaml_fragment.tiling.rows[y]) >= 1

\* C15 as stated: a tiling grid is accepted exactly when it has at least one
\* row and every row has at least one column, rows of different column
\* counts included; zero rows or an empty row is fatal.
C15_AcceptedIffRowsAndColumns ==
    (GridGiven /\ ScalarsAccepted) => (tpc # "aborted" <=> HasRowsAndColumns)

\* C15, amended: a tiling grid is accepted exactly when it has at least one
\* row, every row has at least one column and all rows have the same number
\* of columns; zero rows, an empty row or rows of different column counts
\* are fatal.
C15_AcceptedIffUniformGrid ==
    (GridGiven /\ ScalarsAccepted) =>
        (tpc # "aborted" <=>
            /\ HasRowsAndColumns
            /\ \A y1, y2 \in DOMAIN yaml_fragment.tiling.rows :
                   ColumnsOf(yaml_fragment.tiling.rows[y1])
                       = ColumnsOf(yaml_fragment.tiling.rows[y2]))

\* a grid of two rows of two columns is accepted
C15_Witness ==
    /\ tpc = "built"
    /\ yaml_fragment.tiling.given
    /\ Len(treatment.tiling) = 2
    /\ Len(treatment.tiling[1]) = 2

\* C16: the bounding boxes tiles(width, height) yields lie inside the image
\* and every pixel of the image lies in exactly one of them: they are
\* pairwise disjoint and their union is the rectangle (0,0)-(width,height).
C16_TilesPartitionImage ==
    tpc = "tiled" =>
        /\ \A t \in DOMAIN tile_set :
               /\ 0 <= tile_set[t][1][1] /\ tile_set[t][1][1] <= tile_set[t][1][3]
               /\ 0 <= tile_set[t][1][2] /\ tile_set[t][1][2] <= tile_set[t][1][4]
               /\ tile_set[t][1][3] <= image_size[1]
               /\ tile_set[t][1][4] <= image_size[2]
        /\ \A px \in 0..(image_size[1] - 1), py \in 0..(image_size[2] - 1) :
               Cardinality({t \in DOMAIN tile_set : InBox(<<px, py>>, tile_set[t][1])}) = 1

\* a row of two columns over an image one pixel wide
C16_Witness ==
    /\ tpc = "tiled"
    /\ image_size[1] = 1
    /\ Len(treatment.tiling[1]) = 2
    /\ Len(tile_set) >= 2

----------------------------------------------------------------------------
(* Claims about apply_transforms (specification SpecRender) *)

\* the saturation and brightness the matrix is built from
EffectiveSaturation ==
    IF call.bright /\ call.treatment.saturation <= 90
    THEN call.treatment.saturation + 10 ELSE call.treatment.saturation

EffectiveBrightness ==
    IF call.bright /\ call.treatment.brightness <= 90
    THEN call.treatment.brightness + 10 ELSE call.treatment.brightness

\* channel c of a pixel graded with saturation sat and brightness bri: the
\* weighted sum of the channels, each weight being (1 - sat) of the luma
\* weight plus sat on the channel itself, times bri, rounded and clipped
GradedChannel(pixel, c, cs, sat, bri) ==
    LET weight(j) == cs[j] * (100 - sat) + (IF j = c THEN 100 * sat ELSE 0)
        total == bri * (weight(1) * pixel[1] + weight(2) * pixel[2]
                        + weight(3) * pixel[3])
        rounded == (2 * total + 1000000) \div 2000000
    IN  IF rounded > 255 THEN 255 ELSE rounded

\* the pixel is the graded input pixel with the input's alpha
IsGraded(xy) ==
    /\ \A c \in 1..3 :
           result.pixels[xy][c]
               = GradedChannel(call.image.pixels[xy], c, call.treatment.color_space,
                               EffectiveSaturation, EffectiveBrightness)
    /\ result.pixels[xy][4] = call.image.pixels[xy][4]

Returned == rpc = "done" /\ ~result.resampled

InFullyGradedRegion(xy) ==
    \E t \in DOMAIN tiles(call.treatment.tiling, call.image.size[1], call.image.size[2]) :
        LET tile == tiles(call.treatment.tiling, call.image.size[1],
                          call.image.size[2])[t]
        IN  tile[2] = 100 /\ InBox(xy, tile[1])

\* the luma of a pixel: X r + Y g + Z b times the brightness, rounded
WeightedLuma(pixel, cs, bri) ==
    LET rounded == (2 * bri * (cs[1] * pixel[1] + cs[2] * pixel[2] + cs[3] * pixel[3])
                    + 10000) \div 20000
    IN  IF rounded > 255 THEN 255 ELSE rounded

\* the matrix of the call has three equal rows, the luma weights scaled by
\* the brightness, and the fully graded pixels are grey at their luma
GreyWhereFullyGraded ==
    LET m == Matrix(call.treatment.color_space, EffectiveSaturation,
                    EffectiveBrightness, call.treatment.hue)
    IN  /\ m[1] = m[2] /\ m[2] = m[3]
        /\ \A j \in 1..3 :
               m[1][j] = 100 * call.treatment.color_space[j] * EffectiveBrightness
        /\ \A xy \in DOMAIN result.pixels :
               /\ InFullyGradedRegion(xy) =>
                      \A c \in 1..3 :
                          result.pixels[xy][c]
                              = WeightedLuma(call.image.pixels[xy],
                                             call.treatment.color_space,
                                             EffectiveBrightness)
               /\ result.pixels[xy][4] = call.image.pixels[xy][4]

----------------------------------------------------------------------------
(* Claims about the whole run (specification Spec) *)

\* C19: config.lua is written only when every render task has reached
\* Completed and no collision was found; a run that aborts before or during
\* the concurrent phase never writes it.
C19_ManifestOnlyAfterSuccess ==
    /\ configWritten =>
           /\ err = NoError
           /\ \A i \in DOMAIN futures : futures[i].state = "Completed"
           /\ \A i \in DOMAIN futures : futures[i].target \in files
    /\ (err # NoError \/ pc = "raised") => ~configWritten

\* config.lua written after two render tasks completed
C19_Witness ==
    /\ configWritten
    /\ Len(futures) >= 2

----------------------------------------------------------------------------
(* Claims about the dispatch of selections (specification SpecDispatch) *)

\* C20: in a non-dry run every selection the resolver yields is dispatched as
\* exactly one render task with that selection's target path data/<address>,
\* process_sprite accepts the arguments and the treatment of the task, and a
\* run that ended has written the output file of the selection.
C20_SelectionDispatchedOnce ==
    (~dry_run /\ kpc = "consumed" /\ selection.outcome = "yielded") =>
        /\ Cardinality({i \in DOMAIN futures :
                           futures[i].target = TargetPath(selection.lua_path)}) = 1
        /\ Binds(SubmitKeywords, ProcessSpriteParameters)
        /\ AttributesRead \subseteq TreatmentAttributes
        /\ pc \in {"finished", "raised"} => TargetPath(selection.lua_path) \in files

----------------------------------------------------------------------------
(* Claims about collisions inside one category (specification SpecPatterns) *)

\* the selections of pattern p of category c: the paths it matches that the
\* filters of the category let through
Selects(c, p) ==
    LET cat == CategoryOf(rules[c])
    IN  { f \in Files(PatternCache[cat.patterns[p].mod], cat.patterns[p].pattern) :
            LoopBody(PatternCache, cat.patterns[p].mod, f, cat).outcome = "yielded" }

AddressOf(c, p, f) ==
    FullSpritePath(PatternCache[CategoryOf(rules[c]).patterns[p].mod], f)

\* the for statement has taken selection f of pattern p of category c
Taken(c, p, f) ==
    \/ ci > c
    \/ ci = c /\ pi > p
    \/ ci = c /\ pi = p /\ f \in seen

----------------------------------------------------------------------------
(* Claims about an exception of the submission phase (specification Spec) *)

\* the with-body raised: the loop over the categories was left before its end
SubmissionRaised == ci <= NumCategories /\ pc \in {"except", "shutdown", "raised"}

\* the futures the cancel loop has gone past
Visited(i) == pc # "except" \/ i < xi

\* C22: when the submission phase raises, every submitted task the cancel
\* loop has gone past is no longer waiting to start (it was cancelled, or a
\* worker had taken it), a cancelled task writes no file, sprite_processor
\* is left only when no task is running any more, and the exception that
\* leaves it is the one of the submission phase, whatever the render tasks
\* did; the cancel loop itself turns a waiting task into a cancelled one and
\* leaves every other task as it is.
C22_SubmissionErrorCancelsAndPropagates ==
    /\ [](SubmissionRaised =>
            /\ err = AbortError
            /\ \A i \in DOMAIN futures :
                /\ Visited(i) => futures[i].state # "Pending"
                /\ futures[i].state = "Cancelled" => futures[i].target \notin files
            /\ pc = "raised" => \A i \in DOMAIN futures : Done(futures[i].state))
    /\ [][(pc = "except" /\ xi' = xi + 1) =>
            futures' = IF futures[xi].state = "Pending"
                       THEN SetState(xi, "Cancelled") ELSE futures]_vars

C22_Witness ==
    /\ pc = "raised"
    /\ err = AbortError
    /\ \E i, j \in DOMAIN futures :
        /\ futures[i].state = "Failed"
        /\ futures[j].state = "Cancelled"

====
